---- MODULE Spec2Model ----
(***************************************************************************)
(* PawPal+ core (src/pawpal_system.py): Owner, Pet, Task and Scheduler.    *)
(*                                                                         *)
(* Objects live in two heaps: petObj (every Pet constructed) and taskObj   *)
(* (every Task object that is referenced from somewhere).  A Pet or a Task *)
(* is named by its index in its heap, which models Python object identity. *)
(* One Owner and one Scheduler for that owner exist from the start.        *)
(***************************************************************************)
EXTENDS Integers, Sequences, FiniteSets, TLC

VARIABLES
    available_time,  \* Owner.available_time
    owner_pets,      \* Owner.pets: sequence of Pet identities
    petObj,          \* heap of Pet objects: [name, species, tasks]
    taskObj,         \* heap of Task objects
    tasks,           \* Scheduler.tasks: sequence of Task identities
    daily_plan,      \* Scheduler.daily_plan
    conflicts,       \* Scheduler.conflicts
    ret              \* the last operation and what it returned or raised

vars == <<available_time, owner_pets, petObj, taskObj, tasks, daily_plan,
          conflicts, ret>>

----------------------------------------------------------------------------
(* Bounds of the model *)

MaxTasks == 3        \* Task objects constructed in a run
MaxPets == 1         \* Pet objects constructed in a run of Spec or SpecValidate
DetectMaxPets == 2   \* Pet objects constructed in a run of SpecDetect
MaxAvail == 2        \* Owner.available_time is 0..MaxAvail
MaxStart == 1        \* assign_time_slots is called with 0..MaxStart

(* Values every caller of the model passes *)
SpeciesSet == {"dog"}
TaskNames == {"care"}
TaskTypes == {"walk"}
Recurrences == {"daily"}
SortMethods == {"priority", "duration", "priority_duration"}

(* Optional[int]: None is the empty sequence, a value n is <<n>> *)
None == <<>>
Some(n) == <<n>>

(* The callers of Spec: planning, with a task of negative duration among the
   inputs and no start time supplied *)
PetNames == {"Max"}
Durations == {-1, 1, 2}
Priorities == {1, 2}
StartInputs == {None}

(* The callers of SpecValidate: Task construction at the edges of validation *)
ValidatePetNames == {"Max"}
ValidateDurations == {0, 1}
ValidatePriorities == {0, 1, 5, 6}
ValidateStartInputs == {None}

(* The callers of SpecDetect: two pets, start times supplied by the caller *)
DetectPetNames == {"Max", "Bella"}
DetectDurations == {1, 2}
DetectPriorities == {1}
DetectStartInputs == {None, Some(0), Some(1)}
DetectAvail == 2 * MaxTasks   \* room for every task of the run

(* The callers of SpecQuery: valid tasks of two pets, read back through the
   orderings and Owner.get_all_tasks *)
QueryPetNames == {"Max", "Bella"}
QueryDurations == {1, 2}
QueryPriorities == {1, 2}
QueryStartInputs == {None}
QueryAvail == MaxAvail + 1
SortCalls == {"priority", "duration", "duration_desc", "priority_duration"}

(* The caller of SpecScenario: the default daily budget of the application,
   one pet, four tasks constructed in this order, and the default start of
   assign_time_slots *)
ScenarioAvail == 180
ScenarioStart == 480
ScenarioPetNames == {"Max"}
ScenarioTasks ==
    << [name |-> "medication", duration |-> 5, priority |-> 1],
       [name |-> "feeding", duration |-> 15, priority |-> 1],
       [name |-> "walk", duration |-> 30, priority |-> 2],
       [name |-> "grooming", duration |-> 25, priority |-> 4] >>
ScenarioStarts == {0, ScenarioStart}

(* The callers of SpecShortfall: one pet, tasks that do not all fit, a task of
   negative duration and start times supplied by the caller *)
ShortfallPriorities == {1}
ShortfallStartInputs == {None, Some(0)}

(* The callers of SpecReport: one pet, tasks of every priority band, some of
   which do not fit *)
ReportDurations == {1, 2}
ReportPriorities == {2, 3, 4}

(* The callers of SpecCompletion: one pet, tasks with and without a start
   time, marked complete and incomplete *)
CompletionDurations == {1, 2}
CompletionPriorities == {1}
CompletionStartInputs == {None, Some(0)}
CompletionAvail == MaxAvail

(* The callers of SpecDescriptive: one pet and tasks that differ in category,
   recurrence and start time, some of them marked complete *)
DescriptivePriorities == {1, 2}
DescriptiveDurations == {1, 2}
DescriptiveProfiles ==
    { [task_type |-> "walk", recurrence |-> "daily", scheduled_time |-> None],
      [task_type |-> "feeding", recurrence |-> "weekly", scheduled_time |-> Some(0)] }
DescriptiveAvail == MaxAvail

(* The callers of SpecFrame: one pet, tasks that do not all fit, start times
   written by assign_time_slots and tasks marked complete *)
FrameDurations == {1, 2}
FramePriorities == {1}
FrameAvail == MaxAvail

(* The callers of SpecRoster: a pet of the scheduler's owner and a pet of
   another owner, and tasks handed to the scheduler one by one *)
RosterDurations == {1, 2}
RosterPriorities == {1}
RosterPetNames == {"Max"}
RosterForeignPetNames == {"Bella"}
RosterAvail == MaxAvail

(* Task.priority bounds of Task.__post_init__ *)
MinPriority == 1
MaxPriority == 5

----------------------------------------------------------------------------
(* Helpers over sequences *)

Range(s) == {s[i] : i \in 1..Len(s)}

RECURSIVE SumDur(_, _)
SumDur(heap, s) ==
    IF s = <<>> THEN 0 ELSE heap[Head(s)].duration + SumDur(heap, Tail(s))

RECURSIVE Concat(_)
Concat(ss) == IF ss = <<>> THEN <<>> ELSE Head(ss) \o Concat(Tail(ss))

Reverse(s) == [i \in 1..Len(s) |-> s[Len(s) + 1 - i]]

----------------------------------------------------------------------------
(* Owner *)

\* Owner.get_available_time
get_available_time == available_time

\* get_all_tasks with the pets visited last to first
get_all_tasks_last_pet_first ==
    Concat([i \in 1..Len(owner_pets) |->
              petObj[owner_pets[Len(owner_pets) + 1 - i]].tasks])

\* Owner.get_all_tasks: extend with pet.tasks for each pet of owner.pets
get_all_tasks ==
    Concat([i \in 1..Len(owner_pets) |-> petObj[owner_pets[i]].tasks])

\* A call of Owner.get_all_tasks by the application: a new list is returned,
\* nothing is assigned
call_get_all_tasks ==
    /\ ret' = [op |-> "get_all_tasks", value |-> get_all_tasks]
    /\ UNCHANGED <<available_time, owner_pets, petObj, taskObj, tasks, daily_plan,
                   conflicts>>

\* Pet.__eq__ (dataclass) of a Pet under construction, whose tasks list is
\* still empty, against an existing Pet of the same owner: name, species,
\* age, owner, special_needs and tasks are compared (age and special_needs
\* are the same for every pet of the model).
NewPetEq(name, species, q) ==
    /\ petObj[q].name = name
    /\ petObj[q].species = species
    /\ petObj[q].tasks = <<>>

\* Pet(...): __post_init__ calls owner.add_pet(self), which appends the pet
\* unless an equal pet is already in owner.pets.
NewPet(name, species) ==
    /\ petObj' = Append(petObj, [name |-> name, species |-> species, tasks |-> <<>>])
    /\ owner_pets' =
         IF \E i \in 1..Len(owner_pets) : NewPetEq(name, species, owner_pets[i])
         THEN owner_pets
         ELSE Append(owner_pets, Len(petObj) + 1)
    /\ ret' = [op |-> "Pet"]
    /\ UNCHANGED <<available_time, taskObj, tasks, daily_plan, conflicts>>

\* Pet(...) with another Owner as its owner: __post_init__ calls add_pet of
\* that owner, whose pets list is not part of the state; the pets of the
\* scheduler's owner are as they were.
NewForeignPet(name, species) ==
    /\ petObj' = Append(petObj, [name |-> name, species |-> species, tasks |-> <<>>])
    /\ ret' = [op |-> "Pet"]
    /\ UNCHANGED <<available_time, owner_pets, taskObj, tasks, daily_plan, conflicts>>

----------------------------------------------------------------------------
(* Task *)

\* Task.__eq__ (dataclass): all eight fields are compared
TaskEq(a, b) ==
    /\ a.name = b.name
    /\ a.task_type = b.task_type
    /\ a.duration = b.duration
    /\ a.priority = b.priority
    /\ a.pet = b.pet
    /\ a.recurrence = b.recurrence
    /\ a.completed = b.completed
    /\ a.scheduled_time = b.scheduled_time

\* `task in pet.tasks` for a task object that is not yet in any list
InPetTasks(t, p) == \E i \in 1..Len(petObj[p].tasks) : TaskEq(taskObj[petObj[p].tasks[i]], t)

\* Validate with the duration test off by one
ValidateOffByOne(t) ==
    IF t.duration < 0 THEN "Duration must be positive"
    ELSE IF ~(1 <= t.priority /\ t.priority <= 5)
         THEN "Priority must be between 1 (highest) and 5 (lowest)"
         ELSE "none"

\* The validation of Task.__post_init__: the message of the ValueError that
\* is raised, or NoError
NoError == "none"
Validate(t) ==
    IF t.duration <= 0 THEN "Duration must be positive"
    ELSE IF ~(MinPriority <= t.priority /\ t.priority <= MaxPriority)
         THEN "Priority must be between 1 (highest) and 5 (lowest)"
         ELSE NoError

\* Task(...): __post_init__ first calls pet.add_task(self), which appends the
\* task unless an equal one is in pet.tasks, and only then validates.  The
\* object stays on the heap when some list holds it or the caller got it.
NewTask(name, task_type, duration, priority, p, recurrence, scheduled_time) ==
    LET t == [name |-> name, task_type |-> task_type, duration |-> duration,
              priority |-> priority, pet |-> p, recurrence |-> recurrence,
              completed |-> FALSE, scheduled_time |-> scheduled_time]
        id == Len(taskObj) + 1
        registered == ~InPetTasks(t, p)
        outcome == Validate(t)
        kept == registered \/ outcome = NoError
    IN /\ taskObj' = IF kept THEN Append(taskObj, t) ELSE taskObj
       /\ petObj' = IF registered
                    THEN [petObj EXCEPT ![p].tasks = Append(@, id)]
                    ELSE petObj
       /\ ret' = [op |-> "Task", raised |-> outcome]
       /\ UNCHANGED <<available_time, owner_pets, tasks, daily_plan, conflicts>>

----------------------------------------------------------------------------
(* Scheduler: loading and ordering *)

\* Scheduler.load_tasks_from_owner
load_tasks_from_owner ==
    /\ tasks' = get_all_tasks
    /\ ret' = [op |-> "load"]
    /\ UNCHANGED <<available_time, owner_pets, petObj, taskObj, daily_plan, conflicts>>

\* The sort keys with the open tasks ahead of the completed ones
KeyLessOpenFirst(method, a, b) ==
    \/ ~taskObj[a].completed /\ taskObj[b].completed
    \/ /\ taskObj[a].completed = taskObj[b].completed
       /\ IF method = "duration" THEN taskObj[a].duration < taskObj[b].duration
          ELSE IF method = "priority_duration"
               THEN \/ taskObj[a].priority < taskObj[b].priority
                    \/ /\ taskObj[a].priority = taskObj[b].priority
                       /\ taskObj[a].duration < taskObj[b].duration
               ELSE taskObj[a].priority < taskObj[b].priority

\* The sort keys: key(a) < key(b) for the key of each sort method
KeyLess(method, a, b) ==
    IF method = "duration" THEN taskObj[a].duration < taskObj[b].duration
    ELSE IF method = "priority_duration"
         THEN \/ taskObj[a].priority < taskObj[b].priority
              \/ /\ taskObj[a].priority = taskObj[b].priority
                 /\ taskObj[a].duration < taskObj[b].duration
         ELSE taskObj[a].priority < taskObj[b].priority

\* sorted(): stable, so an element goes behind every element whose key is not
\* greater than its own
RECURSIVE InsertSorted(_, _, _)
InsertSorted(method, x, s) ==
    IF s = <<>> THEN <<x>>
    ELSE IF KeyLess(method, x, Head(s)) THEN <<x>> \o s
         ELSE <<Head(s)>> \o InsertSorted(method, x, Tail(s))

RECURSIVE Sorted(_, _)
Sorted(method, s) ==
    IF s = <<>> THEN <<>>
    ELSE InsertSorted(method, s[Len(s)], Sorted(method, SubSeq(s, 1, Len(s) - 1)))

\* sort_by_priority with the input taken last to first: ties change places
sort_by_priority_ties_reversed(s) == Sorted("priority", Reverse(s))

\* sort_by_priority_then_duration with the duration left out of the key
sort_by_priority_then_nothing(s) == Sorted("priority", s)

\* sort_by_duration_desc as the ascending result read backwards
sort_by_duration_backwards(s) == Reverse(Sorted("duration", s))

\* sort_by_priority with the largest priority number first
sort_by_priority_largest_first(s) == Reverse(Sorted("priority", Reverse(s)))

sort_by_priority(s) == Sorted("priority", s)
sort_by_duration(s) == Sorted("duration", s)
sort_by_priority_then_duration(s) == Sorted("priority_duration", s)

\* sorted(..., reverse=True): the list is reversed, sorted stably on the same
\* key, and the result reversed, which keeps equal keys in input order
sort_by_duration_desc(s) == Reverse(Sorted("duration", Reverse(s)))

\* A call of one of the four orderings on self.tasks by the application: the
\* sorted list is returned, self.tasks is left as it is
call_sort(method) ==
    /\ ret' = [op |-> "sort", method |-> method,
               value |-> IF method = "priority" THEN sort_by_priority(tasks)
                         ELSE IF method = "duration" THEN sort_by_duration(tasks)
                         ELSE IF method = "duration_desc"
                              THEN sort_by_duration_desc(tasks)
                              ELSE sort_by_priority_then_duration(tasks)]
    /\ UNCHANGED <<available_time, owner_pets, petObj, taskObj, tasks, daily_plan,
                   conflicts>>

\* The dispatch on sort_method in generate_daily_plan
SortedTasks(sort_method, s) ==
    IF sort_method = "duration" THEN sort_by_duration(s)
    ELSE IF sort_method = "priority_duration" THEN sort_by_priority_then_duration(s)
         ELSE sort_by_priority(s)

----------------------------------------------------------------------------
(* Scheduler: the greedy allocation *)

\* The loop of generate_daily_plan over sorted_tasks: plan and rejected are
\* daily_plan and conflicts so far, time_used the running total
\* Allocate with the running total never advanced
RECURSIVE AllocateNoTotal(_, _, _, _, _)
AllocateNoTotal(rest, avail, time_used, plan, rejected) ==
    IF rest = <<>> THEN [daily_plan |-> plan, conflicts |-> rejected]
    ELSE LET task == Head(rest)
         IN IF time_used + taskObj[task].duration <= avail
            THEN AllocateNoTotal(Tail(rest), avail, time_used, Append(plan, task),
                                 rejected)
            ELSE AllocateNoTotal(Tail(rest), avail, time_used, plan,
                                 Append(rejected, task))

\* Allocate with a rejected task put in front of conflicts
RECURSIVE AllocatePrepend(_, _, _, _, _)
AllocatePrepend(rest, avail, time_used, plan, rejected) ==
    IF rest = <<>> THEN [daily_plan |-> plan, conflicts |-> rejected]
    ELSE LET task == Head(rest)
         IN IF time_used + taskObj[task].duration <= avail
            THEN AllocatePrepend(Tail(rest), avail, time_used + taskObj[task].duration,
                                 Append(plan, task), rejected)
            ELSE AllocatePrepend(Tail(rest), avail, time_used, plan,
                                 <<task>> \o rejected)

RECURSIVE Allocate(_, _, _, _, _)
Allocate(rest, avail, time_used, plan, rejected) ==
    IF rest = <<>> THEN [daily_plan |-> plan, conflicts |-> rejected]
    ELSE LET task == Head(rest)
         IN IF time_used + taskObj[task].duration <= avail
            THEN Allocate(Tail(rest), avail, time_used + taskObj[task].duration,
                          Append(plan, task), rejected)
            ELSE Allocate(Tail(rest), avail, time_used, plan, Append(rejected, task))

\* generate_daily_plan without the reset of daily_plan and conflicts
generate_daily_plan_accumulate(sort_method) ==
    LET loaded == IF tasks = <<>> THEN get_all_tasks ELSE tasks
        sorted_tasks == SortedTasks(sort_method, loaded)
        result == Allocate(sorted_tasks, get_available_time, 0, daily_plan, conflicts)
    IN /\ tasks' = loaded
       /\ daily_plan' = result.daily_plan
       /\ conflicts' = result.conflicts
       /\ ret' = [op |-> "generate", sort_method |-> sort_method,
                  value |-> result.daily_plan]
       /\ UNCHANGED <<available_time, owner_pets, petObj, taskObj>>

\* generate_daily_plan that clears the start time of every task it considers
generate_daily_plan_clear_stamps(sort_method) ==
    LET loaded == IF tasks = <<>> THEN get_all_tasks ELSE tasks
        sorted_tasks == SortedTasks(sort_method, loaded)
        result == Allocate(sorted_tasks, get_available_time, 0, <<>>, <<>>)
    IN /\ tasks' = loaded
       /\ daily_plan' = result.daily_plan
       /\ conflicts' = result.conflicts
       /\ taskObj' = [t \in 1..Len(taskObj) |->
                        IF t \in Range(loaded)
                        THEN [taskObj[t] EXCEPT !.scheduled_time = None]
                        ELSE taskObj[t]]
       /\ ret' = [op |-> "generate", sort_method |-> sort_method,
                  value |-> result.daily_plan]
       /\ UNCHANGED <<available_time, owner_pets, petObj>>

\* Scheduler.generate_daily_plan(sort_method)
generate_daily_plan(sort_method) ==
    LET loaded == IF tasks = <<>> THEN get_all_tasks ELSE tasks
        sorted_tasks == SortedTasks(sort_method, loaded)
        result == Allocate(sorted_tasks, get_available_time, 0, <<>>, <<>>)
    IN /\ tasks' = loaded
       /\ daily_plan' = result.daily_plan
       /\ conflicts' = result.conflicts
       /\ ret' = [op |-> "generate", sort_method |-> sort_method,
                  value |-> result.daily_plan]
       /\ UNCHANGED <<available_time, owner_pets, petObj, taskObj>>

\* Scheduler.calculate_total_time
calculate_total_time == SumDur(taskObj, daily_plan)

\* Scheduler.check_conflicts
check_conflicts == conflicts

----------------------------------------------------------------------------
(* Scheduler: time slots *)

\* Stamp with the clock advanced before the task is stamped
RECURSIVE StampAdvanceFirst(_, _, _)
StampAdvanceFirst(heap, plan, current_time) ==
    IF plan = <<>> THEN heap
    ELSE StampAdvanceFirst(
             [heap EXCEPT ![Head(plan)].scheduled_time =
                              Some(current_time + heap[Head(plan)].duration)],
             Tail(plan), current_time + heap[Head(plan)].duration)

\* Stamp that leaves a start time a task already has
RECURSIVE StampKeepExisting(_, _, _)
StampKeepExisting(heap, plan, current_time) ==
    IF plan = <<>> THEN heap
    ELSE StampKeepExisting(
             IF heap[Head(plan)].scheduled_time = <<>>
             THEN [heap EXCEPT ![Head(plan)].scheduled_time = <<current_time>>]
             ELSE heap,
             Tail(plan), current_time + heap[Head(plan)].duration)

\* The loop of assign_time_slots: stamps the tasks of plan on heap, the clock
\* advancing by each task's duration
RECURSIVE Stamp(_, _, _)
Stamp(heap, plan, current_time) ==
    IF plan = <<>> THEN heap
    ELSE Stamp([heap EXCEPT ![Head(plan)].scheduled_time = Some(current_time)],
               Tail(plan), current_time + heap[Head(plan)].duration)

\* assign_time_slots over the scheduler's whole task list
assign_time_slots_whole_list(start_time) ==
    /\ taskObj' = Stamp(taskObj, tasks, start_time)
    /\ ret' = [op |-> "assign"]
    /\ UNCHANGED <<available_time, owner_pets, petObj, tasks, daily_plan, conflicts>>

\* Scheduler.assign_time_slots(start_time)
assign_time_slots(start_time) ==
    /\ taskObj' = Stamp(taskObj, daily_plan, start_time)
    /\ ret' = [op |-> "assign"]
    /\ UNCHANGED <<available_time, owner_pets, petObj, tasks, daily_plan, conflicts>>

----------------------------------------------------------------------------
(* Scheduler: conflict detection *)

\* ScheduledTasks without the test: every plan task is scanned
ScheduledTasksUnfiltered(plan) == plan

\* ScheduledTasks with the start time tested for truth: a start of 0 counts
\* as absent
RECURSIVE ScheduledTasksTruthy(_)
ScheduledTasksTruthy(plan) ==
    IF plan = <<>> THEN <<>>
    ELSE IF taskObj[Head(plan)].scheduled_time # <<>>
            /\ taskObj[Head(plan)].scheduled_time[1] # 0
         THEN <<Head(plan)>> \o ScheduledTasksTruthy(Tail(plan))
         ELSE ScheduledTasksTruthy(Tail(plan))

\* [t for t in self.daily_plan if t.scheduled_time is not None]
RECURSIVE ScheduledTasks(_)
ScheduledTasks(plan) ==
    IF plan = <<>> THEN <<>>
    ELSE IF taskObj[Head(plan)].scheduled_time # None
         THEN <<Head(plan)>> \o ScheduledTasks(Tail(plan))
         ELSE ScheduledTasks(Tail(plan))

Start(t) == taskObj[t].scheduled_time[1]
End(t) == Start(t) + taskObj[t].duration
Max2(a, b) == IF a >= b THEN a ELSE b
Min2(a, b) == IF a <= b THEN a ELSE b

\* Scheduler._format_time: HH:MM as the pair <<hours, mins>>
FormatTime(minutes) == <<minutes \div 60, minutes % 60>>

\* Overlap with closed intervals
OverlapClosed(task1, task2) ==
    Start(task1) <= End(task2) /\ Start(task2) <= End(task1)

\* The overlap test of both scans
Overlap(task1, task2) == Start(task1) < End(task2) /\ Start(task2) < End(task1)

\* The record detect_time_conflicts appends for an overlapping pair
TimeRecord(task1, task2) ==
    IF Overlap(task1, task2)
    THEN << [task1 |-> task1, task2 |-> task2,
             reason |-> <<"Time overlap", FormatTime(Max2(Start(task1), Start(task2))),
                          FormatTime(Min2(End(task1), End(task2)))>>] >>
    ELSE <<>>

\* The record detect_pet_conflicts appends: the pets are compared by name
PetRecord(task1, task2) ==
    IF petObj[taskObj[task1].pet].name = petObj[taskObj[task2].pet].name
       /\ Overlap(task1, task2)
    THEN << [task1 |-> task1, task2 |-> task2,
             reason |-> <<petObj[taskObj[task1].pet].name,
                          "cannot do two tasks simultaneously">>] >>
    ELSE <<>>

\* InnerScan over scheduled_tasks[i:], which pairs task1 with itself
RECURSIVE ScanFrom(_, _, _)
ScanFrom(kind, task1, rest) ==
    IF rest = <<>> THEN <<>>
    ELSE (IF kind = "time" THEN TimeRecord(task1, Head(rest))
          ELSE PetRecord(task1, Head(rest)))
         \o ScanFrom(kind, task1, Tail(rest))
InnerScanFromSelf(kind, task1, rest) == ScanFrom(kind, task1, <<task1>> \o rest)

\* for task2 in scheduled_tasks[i+1:]
RECURSIVE InnerScan(_, _, _)
InnerScan(kind, task1, rest) ==
    IF rest = <<>> THEN <<>>
    ELSE (IF kind = "time" THEN TimeRecord(task1, Head(rest))
          ELSE PetRecord(task1, Head(rest)))
         \o InnerScan(kind, task1, Tail(rest))

\* for i, task1 in enumerate(scheduled_tasks)
RECURSIVE OuterScan(_, _)
OuterScan(kind, scheduled) ==
    IF scheduled = <<>> THEN <<>>
    ELSE InnerScan(kind, Head(scheduled), Tail(scheduled))
         \o OuterScan(kind, Tail(scheduled))

\* task.scheduled_time + task.duration raises a TypeError when the start time
\* of a scanned task is None
ScanError ==
    IF \E t \in Range(ScheduledTasks(daily_plan)) : taskObj[t].scheduled_time = None
    THEN "TypeError" ELSE NoError

detect_time_conflicts == OuterScan("time", ScheduledTasks(daily_plan))
detect_pet_conflicts == OuterScan("pet", ScheduledTasks(daily_plan))

\* The records of recs whose pair no record of others names
RECURSIVE WithoutPairsOf(_, _)
WithoutPairsOf(recs, others) ==
    IF recs = <<>> THEN <<>>
    ELSE (IF \E k \in 1..Len(others) :
                {others[k].task1, others[k].task2}
                  = {Head(recs).task1, Head(recs).task2}
          THEN <<>> ELSE <<Head(recs)>>)
         \o WithoutPairsOf(Tail(recs), others)

\* detect_all_conflicts with a pair reported in one category only
detect_all_conflicts_deduplicated ==
    /\ ret' = [op |-> "detect", raised |-> NoError,
               time_conflicts |-> detect_time_conflicts,
               pet_conflicts |->
                   WithoutPairsOf(detect_pet_conflicts, detect_time_conflicts)]
    /\ UNCHANGED <<available_time, owner_pets, petObj, taskObj, tasks, daily_plan,
                   conflicts>>

\* Scheduler.detect_all_conflicts
detect_all_conflicts ==
    /\ ret' = IF ScanError # NoError
              THEN [op |-> "detect", raised |-> ScanError]
              ELSE [op |-> "detect", raised |-> NoError,
                    time_conflicts |-> detect_time_conflicts,
                    pet_conflicts |-> detect_pet_conflicts]
    /\ UNCHANGED <<available_time, owner_pets, petObj, taskObj, tasks, daily_plan,
                   conflicts>>

----------------------------------------------------------------------------
(* Task: completion; Scheduler: its task list, the completion filter and the
   rendered plan *)

\* mark_complete that flips the flag
mark_complete_toggle(t) ==
    /\ taskObj' = [taskObj EXCEPT ![t].completed = ~@]
    /\ ret' = [op |-> "mark_complete", task |-> t]
    /\ UNCHANGED <<available_time, owner_pets, petObj, tasks, daily_plan, conflicts>>

\* Task.mark_complete
mark_complete(t) ==
    /\ taskObj' = [taskObj EXCEPT ![t].completed = TRUE]
    /\ ret' = [op |-> "mark_complete", task |-> t]
    /\ UNCHANGED <<available_time, owner_pets, petObj, tasks, daily_plan, conflicts>>

\* Task.mark_incomplete
mark_incomplete(t) ==
    /\ taskObj' = [taskObj EXCEPT ![t].completed = FALSE]
    /\ ret' = [op |-> "mark_incomplete", task |-> t]
    /\ UNCHANGED <<available_time, owner_pets, petObj, tasks, daily_plan, conflicts>>

\* Task.is_high_priority
is_high_priority(t) == taskObj[t].priority <= 2

\* `task in self.tasks`: list membership compares with Task.__eq__
InSchedulerTasks(t) == \E i \in 1..Len(tasks) : TaskEq(taskObj[tasks[i]], taskObj[t])

\* Scheduler.add_task: append unless an equal task is in the list
add_task(t) ==
    /\ tasks' = IF InSchedulerTasks(t) THEN tasks ELSE Append(tasks, t)
    /\ ret' = [op |-> "add_task", task |-> t]
    /\ UNCHANGED <<available_time, owner_pets, petObj, taskObj, daily_plan, conflicts>>

\* list.remove(x): the list without its first element equal to x
RemoveFirstEqual(s, t) ==
    LET first == CHOOSE i \in 1..Len(s) :
                     /\ TaskEq(taskObj[s[i]], taskObj[t])
                     /\ \A j \in 1..(i - 1) : ~TaskEq(taskObj[s[j]], taskObj[t])
    IN SubSeq(s, 1, first - 1) \o SubSeq(s, first + 1, Len(s))

\* Scheduler.remove_task: remove when an equal task is in the list.  The
\* record of the call keeps which branch of the test was taken.
remove_task(t) ==
    /\ tasks' = IF InSchedulerTasks(t) THEN RemoveFirstEqual(tasks, t) ELSE tasks
    /\ ret' = [op |-> "remove_task", task |-> t, removed |-> InSchedulerTasks(t)]
    /\ UNCHANGED <<available_time, owner_pets, petObj, taskObj, daily_plan, conflicts>>

\* filter_by_completion that keeps every task when asked for the open ones
filter_by_completion_open_is_all(completed) ==
    SelectSeq(tasks, LAMBDA t : completed => taskObj[t].completed)

\* Scheduler.filter_by_completion
filter_by_completion(completed) ==
    SelectSeq(tasks, LAMBDA t : taskObj[t].completed = completed)

\* A call of Scheduler.filter_by_completion: a new list is returned
call_filter_by_completion(completed) ==
    /\ ret' = [op |-> "filter_by_completion", completed |-> completed,
               value |-> filter_by_completion(completed)]
    /\ UNCHANGED <<available_time, owner_pets, petObj, taskObj, tasks, daily_plan,
                   conflicts>>

\* The text of Scheduler.get_plan_summary is a sequence of lines; a line is
\* the record of its kind and of the values it prints.  The rulers and blank
\* lines, which carry nothing, are left out.
NoPlanText ==
    << [kind |-> "message",
        text |-> "No tasks scheduled yet. Run generate_daily_plan() first."] >>
PriorityLabel(t) ==
    IF is_high_priority(t) THEN "HIGH"
    ELSE IF taskObj[t].priority = 3 THEN "MEDIUM" ELSE "LOW"
StatusMark(t) == IF taskObj[t].completed THEN "done" ELSE "open"
HeaderLines ==
    << [kind |-> "title", text |-> "TODAY'S SCHEDULE FOR"],
       [kind |-> "available", minutes |-> get_available_time],
       [kind |-> "scheduled", minutes |-> calculate_total_time] >>
PlanLines ==
    Concat([i \in 1..Len(daily_plan) |->
              << [kind |-> "task", index |-> i, status |-> StatusMark(daily_plan[i]),
                  label |-> PriorityLabel(daily_plan[i]),
                  name |-> taskObj[daily_plan[i]].name],
                 [kind |-> "detail", pet |-> petObj[taskObj[daily_plan[i]].pet].name,
                  duration |-> taskObj[daily_plan[i]].duration,
                  task_type |-> taskObj[daily_plan[i]].task_type] >>])
ConflictsHeading ==
    [kind |-> "heading", text |-> "CONFLICTS - Tasks that couldn't fit:"]
ConflictLines ==
    IF conflicts = <<>> THEN <<>>
    ELSE <<ConflictsHeading>> \o
         [i \in 1..Len(conflicts) |->
            [kind |-> "conflict", name |-> taskObj[conflicts[i]].name,
             duration |-> taskObj[conflicts[i]].duration,
             priority |-> taskObj[conflicts[i]].priority,
             pet |-> petObj[taskObj[conflicts[i]].pet].name]]

\* Scheduler.get_plan_summary
get_plan_summary ==
    IF daily_plan = <<>> THEN NoPlanText
    ELSE HeaderLines \o PlanLines \o ConflictLines

\* A call of Scheduler.get_plan_summary
call_get_plan_summary ==
    /\ ret' = [op |-> "get_plan_summary", value |-> get_plan_summary]
    /\ UNCHANGED <<available_time, owner_pets, petObj, taskObj, tasks, daily_plan,
                   conflicts>>

----------------------------------------------------------------------------
(* The system *)

\* Owner(name, available_time) and Scheduler(owner): Scheduler.__init__
InitWith(capacities) ==
    /\ available_time \in capacities
    /\ owner_pets = <<>>
    /\ petObj = <<>>
    /\ taskObj = <<>>
    /\ tasks = <<>>
    /\ daily_plan = <<>>
    /\ conflicts = <<>>
    /\ ret = [op |-> "init"]

\* The operations, the callers' arguments drawn from the given sets
NextWith(maxPets, petNames, durations, priorities, startInputs) ==
    \/ /\ Len(petObj) < maxPets
       /\ \E name \in petNames, species \in SpeciesSet : NewPet(name, species)
    \/ /\ Len(taskObj) < MaxTasks
       /\ \E name \in TaskNames, task_type \in TaskTypes, duration \in durations,
             priority \in priorities, p \in 1..Len(petObj), recurrence \in Recurrences,
             scheduled_time \in startInputs :
             NewTask(name, task_type, duration, priority, p, recurrence, scheduled_time)
    \/ load_tasks_from_owner
    \/ \E sort_method \in SortMethods : generate_daily_plan(sort_method)
    \/ \E start_time \in 0..MaxStart : assign_time_slots(start_time)
    \/ detect_all_conflicts

Init == InitWith(0..MaxAvail)
Next == NextWith(MaxPets, PetNames, Durations, Priorities, StartInputs)
Spec == Init /\ [][Next]_vars

NextValidate ==
    NextWith(MaxPets, ValidatePetNames, ValidateDurations, ValidatePriorities,
             ValidateStartInputs)
SpecValidate == Init /\ [][NextValidate]_vars

NextDetect ==
    NextWith(DetectMaxPets, DetectPetNames, DetectDurations, DetectPriorities,
             DetectStartInputs)
InitDetect == InitWith({DetectAvail})
SpecDetect == InitDetect /\ [][NextDetect]_vars

NextShortfall ==
    NextWith(MaxPets, PetNames, Durations, ShortfallPriorities, ShortfallStartInputs)
SpecShortfall == Init /\ [][NextShortfall]_vars

\* Construction, loading and planning, and the read-only calls
NextQuery ==
    \/ /\ Len(petObj) < DetectMaxPets
       /\ \E name \in QueryPetNames, species \in SpeciesSet : NewPet(name, species)
    \/ /\ Len(taskObj) < MaxTasks
       /\ \E name \in TaskNames, task_type \in TaskTypes, duration \in QueryDurations,
             priority \in QueryPriorities, p \in 1..Len(petObj),
             recurrence \in Recurrences, scheduled_time \in QueryStartInputs :
             NewTask(name, task_type, duration, priority, p, recurrence, scheduled_time)
    \/ load_tasks_from_owner
    \/ \E sort_method \in SortMethods : generate_daily_plan(sort_method)
    \/ call_get_all_tasks
    \/ \E method \in SortCalls : call_sort(method)
InitQuery == InitWith({QueryAvail})
SpecQuery == InitQuery /\ [][NextQuery]_vars

\* One pet, the tasks of ScenarioTasks constructed in their order, and the
\* scheduler operations
NextScenario ==
    \/ /\ petObj = <<>>
       /\ \E name \in ScenarioPetNames, species \in SpeciesSet : NewPet(name, species)
    \/ /\ Len(taskObj) < Len(ScenarioTasks)
       /\ \E p \in 1..Len(petObj), recurrence \in Recurrences :
             LET next == ScenarioTasks[Len(taskObj) + 1]
             IN NewTask(next.name, next.name, next.duration, next.priority, p,
                        recurrence, None)
    \/ load_tasks_from_owner
    \/ \E sort_method \in SortMethods : generate_daily_plan(sort_method)
    \/ \E start_time \in ScenarioStarts : assign_time_slots(start_time)
    \/ detect_all_conflicts
InitScenario == InitWith({ScenarioAvail})
SpecScenario == InitScenario /\ [][NextScenario]_vars

\* One pet; construction, loading and planning, and the rendered plan
NextReport ==
    \/ /\ Len(petObj) < MaxPets
       /\ \E name \in PetNames, species \in SpeciesSet : NewPet(name, species)
    \/ /\ Len(taskObj) < MaxTasks
       /\ \E name \in TaskNames, task_type \in TaskTypes, duration \in ReportDurations,
             priority \in ReportPriorities, p \in 1..Len(petObj),
             recurrence \in Recurrences :
             NewTask(name, task_type, duration, priority, p, recurrence, None)
    \/ load_tasks_from_owner
    \/ \E sort_method \in SortMethods : generate_daily_plan(sort_method)
    \/ call_get_plan_summary
SpecReport == Init /\ [][NextReport]_vars

\* One pet; construction, loading and planning; completion marks and the
\* completion filter
NextCompletion ==
    \/ /\ Len(petObj) < MaxPets
       /\ \E name \in PetNames, species \in SpeciesSet : NewPet(name, species)
    \/ /\ Len(taskObj) < MaxTasks
       /\ \E name \in TaskNames, task_type \in TaskTypes,
             duration \in CompletionDurations, priority \in CompletionPriorities,
             p \in 1..Len(petObj), recurrence \in Recurrences,
             scheduled_time \in CompletionStartInputs :
             NewTask(name, task_type, duration, priority, p, recurrence, scheduled_time)
    \/ load_tasks_from_owner
    \/ \E sort_method \in SortMethods : generate_daily_plan(sort_method)
    \/ \E t \in 1..Len(taskObj) : mark_complete(t)
    \/ \E t \in 1..Len(taskObj) : mark_incomplete(t)
    \/ \E completed \in BOOLEAN : call_filter_by_completion(completed)
InitCompletion == InitWith({CompletionAvail})
SpecCompletion == InitCompletion /\ [][NextCompletion]_vars

\* One pet, tasks of either descriptive profile, completion marks, loading
\* and planning
NextDescriptive ==
    \/ /\ Len(petObj) < MaxPets
       /\ \E name \in PetNames, species \in SpeciesSet : NewPet(name, species)
    \/ /\ Len(taskObj) < MaxTasks
       /\ \E name \in TaskNames, duration \in DescriptiveDurations,
             priority \in DescriptivePriorities, p \in 1..Len(petObj),
             profile \in DescriptiveProfiles :
             NewTask(name, profile.task_type, duration, priority, p,
                     profile.recurrence, profile.scheduled_time)
    \/ load_tasks_from_owner
    \/ \E sort_method \in SortMethods : generate_daily_plan(sort_method)
    \/ \E t \in 1..Len(taskObj) : mark_complete(t)
InitDescriptive == InitWith({DescriptiveAvail})
SpecDescriptive == InitDescriptive /\ [][NextDescriptive]_vars

\* A pet of the scheduler's owner and a pet of another owner; tasks for
\* either; the scheduler's list filled by loading and by single tasks
NextRoster ==
    \/ /\ Len(owner_pets) < MaxPets
       /\ \E name \in RosterPetNames, species \in SpeciesSet : NewPet(name, species)
    \/ /\ Len(petObj) - Len(owner_pets) < MaxPets
       /\ \E name \in RosterForeignPetNames, species \in SpeciesSet :
             NewForeignPet(name, species)
    \/ /\ Len(taskObj) < MaxTasks
       /\ \E name \in TaskNames, task_type \in TaskTypes, duration \in RosterDurations,
             priority \in RosterPriorities, p \in 1..Len(petObj),
             recurrence \in Recurrences :
             NewTask(name, task_type, duration, priority, p, recurrence, None)
    \/ load_tasks_from_owner
    \/ \E sort_method \in SortMethods : generate_daily_plan(sort_method)
    \/ \E t \in 1..Len(taskObj) : add_task(t)
    \/ \E t \in 1..Len(taskObj) : remove_task(t)
InitRoster == InitWith({RosterAvail})
SpecRoster == InitRoster /\ [][NextRoster]_vars

\* One pet; construction, loading, planning and time slots, and tasks marked
\* complete
NextFrame ==
    \/ /\ Len(petObj) < MaxPets
       /\ \E name \in PetNames, species \in SpeciesSet : NewPet(name, species)
    \/ /\ Len(taskObj) < MaxTasks
       /\ \E name \in TaskNames, task_type \in TaskTypes, duration \in FrameDurations,
             priority \in FramePriorities, p \in 1..Len(petObj),
             recurrence \in Recurrences :
             NewTask(name, task_type, duration, priority, p, recurrence, None)
    \/ load_tasks_from_owner
    \/ \E sort_method \in SortMethods : generate_daily_plan(sort_method)
    \/ \E start_time \in 0..MaxStart : assign_time_slots(start_time)
    \/ \E t \in 1..Len(taskObj) : mark_complete(t)
InitFrame == InitWith({FrameAvail})
SpecFrame == InitFrame /\ [][NextFrame]_vars

----------------------------------------------------------------------------
(* Vocabulary of the properties *)

\* A step of the given operation, whatever its argument
GenerateStep(m) == generate_daily_plan(m)
AssignStep == \E start_time \in 0..MaxStart : assign_time_slots(start_time)

\* A Task(...) call with the given duration, priority, pet and start time
TaskStep(duration, priority, p, scheduled_time) ==
    \E name \in TaskNames, task_type \in TaskTypes, recurrence \in Recurrences :
        NewTask(name, task_type, duration, priority, p, recurrence, scheduled_time)

\* Every task some collection holds
HeldTasks ==
    UNION {Range(petObj[p].tasks) : p \in 1..Len(petObj)}
      \cup Range(tasks) \cup Range(daily_plan) \cup Range(conflicts)

\* The tasks of the plan that have a start time
ScheduledInPlan == {t \in Range(daily_plan) : taskObj[t].scheduled_time # None}

\* The half-open intervals of a and b intersect, as the claims state it
HalfOpenOverlap(a, b) ==
    /\ taskObj[a].scheduled_time[1]
         < taskObj[b].scheduled_time[1] + taskObj[b].duration
    /\ taskObj[b].scheduled_time[1]
         < taskObj[a].scheduled_time[1] + taskObj[a].duration

\* a starts exactly when b ends
StartsAtEndOf(a, b) ==
    taskObj[a].scheduled_time[1] = taskObj[b].scheduled_time[1] + taskObj[b].duration

\* Some record of recs names the pair a, b
ReportedIn(recs, a, b) ==
    \E k \in 1..Len(recs) : {recs[k].task1, recs[k].task2} = {a, b}

\* Every record of recs names two different scheduled tasks of the plan
RecordsOfPlan(recs) ==
    \A k \in 1..Len(recs) :
        /\ recs[k].task1 # recs[k].task2
        /\ {recs[k].task1, recs[k].task2} \subseteq ScheduledInPlan

\* How often x occurs in the sequence s
Count(x, s) == Cardinality({i \in 1..Len(s) : s[i] = x})

\* a lists elements of b in the order b has them, each position of b used at
\* most once
IsOrderedPartOf(a, b) ==
    \E f \in [1..Len(a) -> 1..Len(b)] :
        /\ \A i \in 1..Len(a) : b[f[i]] = a[i]
        /\ \A i, j \in 1..Len(a) : i < j => f[i] < f[j]

\* The durations of the tasks of s[1..n] that are in the plan
RECURSIVE AcceptedBefore(_, _, _)
AcceptedBefore(s, n, plan) ==
    IF n = 0 THEN 0
    ELSE AcceptedBefore(s, n - 1, plan)
         + (IF s[n] \in Range(plan) THEN taskObj[s[n]].duration ELSE 0)

----------------------------------------------------------------------------
(* C1: after every generate_daily_plan call, the durations of the tasks in
   daily_plan sum to at most the owner's available_time. *)
C1_PlanWithinCapacity ==
    ret.op = "generate" => SumDur(taskObj, daily_plan) <= available_time

\* a plan that holds two tasks and leaves one out for lack of time
C1_Witness ==
    /\ ret.op = "generate"
    /\ Len(daily_plan) = 2
    /\ conflicts # <<>>
    /\ \A i \in 1..Len(conflicts) : taskObj[conflicts[i]].duration <= available_time

(* C2: after every generate_daily_plan call, daily_plan and conflicts are
   disjoint, together hold every task of the scheduler's task list exactly
   once, and each keeps the relative order of the sorted sequence. *)
C2_Partition ==
    [][\A m \in SortMethods : GenerateStep(m) =>
         LET sorted == SortedTasks(m, tasks')
         IN /\ Range(daily_plan') \cap Range(conflicts') = {}
            /\ \A t \in Range(tasks') : Count(t, daily_plan' \o conflicts') = 1
            /\ Range(daily_plan') \cup Range(conflicts') = Range(tasks')
            /\ Len(daily_plan') + Len(conflicts') = Len(tasks')
            /\ IsOrderedPartOf(daily_plan', sorted)
            /\ IsOrderedPartOf(conflicts', sorted)]_vars

\* the plan holds a task and the rejected list two
C2_Witness ==
    /\ ret.op = "generate"
    /\ daily_plan # <<>>
    /\ Len(conflicts) = 2

(* C3: generate_daily_plan decides the tasks one at a time in sorted order: a
   task is accepted iff the durations accepted before it plus its own fit in
   available_time; the bound is inclusive, so tasks whose durations sum
   exactly to available_time are all accepted. *)
C3_GreedyInclusive ==
    [][\A m \in SortMethods : GenerateStep(m) =>
         LET sorted == SortedTasks(m, tasks')
         IN /\ \A i \in 1..Len(sorted) :
                 sorted[i] \in Range(daily_plan') <=>
                   AcceptedBefore(sorted, i - 1, daily_plan')
                     + taskObj[sorted[i]].duration <= available_time
            /\ SumDur(taskObj, sorted) = available_time => conflicts' = <<>>]_vars

(* C4: Task construction raises a ValueError if and only if duration <= 0
   or priority is outside 1..5. *)
C4_RaisesIffInvalid ==
    [][\A duration \in ValidateDurations, priority \in ValidatePriorities,
          p \in 1..Len(petObj), scheduled_time \in ValidateStartInputs :
          TaskStep(duration, priority, p, scheduled_time) =>
            ((ret'.raised # NoError) <=>
               (duration <= 0 \/ priority < 1 \/ priority > 5))]_vars

\* a construction with priority 6 has raised, after one that succeeded
C4_Witness ==
    /\ ret.op = "Task"
    /\ ret.raised # NoError
    /\ Len(taskObj) >= 2
    /\ taskObj[Len(taskObj)].priority = 6
    /\ taskObj[Len(taskObj)].duration > 0
    /\ taskObj[1].priority = 5
    /\ taskObj[1].duration > 0

(* C5: a Task construction that fails validation does not register the
   task: the pet's task collection is the same after it as before. *)
C5_FailedNotRegistered ==
    [][\A duration \in ValidateDurations, priority \in ValidatePriorities,
          p \in 1..Len(petObj), scheduled_time \in ValidateStartInputs :
          (TaskStep(duration, priority, p, scheduled_time) /\ ret'.raised # NoError)
            => petObj'[p].tasks = petObj[p].tasks]_vars

(* C6: in every reachable state, every task held in a pet's task collection
   or in the scheduler's task list, daily_plan or conflicts has duration > 0
   and 1 <= priority <= 5. *)
C6_HeldTasksValid ==
    \A t \in HeldTasks :
        /\ taskObj[t].duration > 0
        /\ 1 <= taskObj[t].priority
        /\ taskObj[t].priority <= 5

(* C7: detect_time_conflicts reports a pair of scheduled tasks of the plan
   if and only if their half-open intervals intersect; a task that starts
   exactly when the other ends is never reported. *)
C7_TimeConflictsHalfOpen ==
    ret.op = "detect" =>
        /\ RecordsOfPlan(ret.time_conflicts)
        /\ \A a, b \in ScheduledInPlan :
             a # b =>
               /\ ReportedIn(ret.time_conflicts, a, b) <=> HalfOpenOverlap(a, b)
               /\ StartsAtEndOf(a, b) => ~ReportedIn(ret.time_conflicts, a, b)

\* three scheduled tasks: one starts when another ends, and one pair overlaps
C7_Witness ==
    /\ ret.op = "detect"
    /\ Cardinality(ScheduledInPlan) = 3
    /\ \E a, b \in ScheduledInPlan : a # b /\ StartsAtEndOf(a, b)
    /\ \E a, b \in ScheduledInPlan : a # b /\ ReportedIn(ret.time_conflicts, a, b)

(* C8: detect_pet_conflicts reports a pair of scheduled plan tasks if and
   only if the two tasks belong to the same pet and their intervals overlap;
   tasks of two different pets are never reported. *)
C8_PetConflictsSamePet ==
    ret.op = "detect" =>
        /\ RecordsOfPlan(ret.pet_conflicts)
        /\ \A a, b \in ScheduledInPlan :
             a # b =>
               (ReportedIn(ret.pet_conflicts, a, b) <=>
                  (taskObj[a].pet = taskObj[b].pet /\ HalfOpenOverlap(a, b)))

(* C9: assign_time_slots(s) stamps the plan back to back in plan order: the
   first task of daily_plan gets s, every later task the previous task's
   scheduled_time plus the previous task's duration. *)
C9_BackToBack ==
    [][\A s \in 0..MaxStart : assign_time_slots(s) =>
         /\ daily_plan # <<>> => taskObj'[daily_plan[1]].scheduled_time = Some(s)
         /\ \A i \in 2..Len(daily_plan) :
              taskObj'[daily_plan[i]].scheduled_time =
                Some(taskObj'[daily_plan[i - 1]].scheduled_time[1]
                       + taskObj'[daily_plan[i - 1]].duration)]_vars

\* a plan of two tasks stamped from a start other than 0
C9_Witness ==
    /\ ret.op = "assign"
    /\ Len(daily_plan) >= 2
    /\ taskObj[daily_plan[1]].scheduled_time = Some(1)
    /\ taskObj[daily_plan[2]].scheduled_time = Some(1 + taskObj[daily_plan[1]].duration)

(* C10: whenever assign_time_slots is called directly after
   generate_daily_plan, detect_all_conflicts then finds no time conflict and
   no pet conflict. *)
C10_NoConflictAfterAssign ==
    [][(ret.op = "generate" /\ AssignStep) =>
         (detect_time_conflicts = <<>> /\ detect_pet_conflicts = <<>>)']_vars

(* C11: after every generate_daily_plan call, daily_plan together with
   conflicts holds exactly the tasks of owner.get_all_tasks() at the time of
   the call, whatever load_tasks_from_owner, generate_daily_plan and Task
   calls came before. *)
C11_PlansOwnersTasks ==
    [][\A m \in SortMethods : GenerateStep(m) =>
         /\ Range(daily_plan') \cup Range(conflicts') = Range(get_all_tasks)
         /\ Len(daily_plan') + Len(conflicts') = Len(get_all_tasks)]_vars

(* C12: a generate_daily_plan call that directly follows a
   generate_daily_plan call with the same sort method (the task list and
   available_time being the same) leaves daily_plan and conflicts as the
   first call left them: nothing accumulates. *)
C12_RerunSameResult ==
    [][\A m \in SortMethods :
         (ret.op = "generate" /\ ret.sort_method = m /\ GenerateStep(m)) =>
           (daily_plan' = daily_plan /\ conflicts' = conflicts)]_vars

\* a generated result with accepted and rejected tasks, which a second call
\* would have to reproduce
C12_Witness ==
    /\ ret.op = "generate"
    /\ ret.sort_method = "priority_duration"
    /\ Len(tasks) = 3
    /\ daily_plan # <<>>
    /\ conflicts # <<>>

(* C13: with available_time = 0, generate_daily_plan rejects every task:
   after the call daily_plan is empty and conflicts holds all tasks of the
   scheduler, for every reachable task list and every sort method. *)
C13_ZeroCapacityRejectsAll ==
    (ret.op = "generate" /\ available_time = 0) =>
        /\ daily_plan = <<>>
        /\ Range(conflicts) = Range(tasks)
        /\ Len(conflicts) = Len(tasks)

(* C14: after generate_daily_plan, no task whose duration alone exceeds
   available_time is in daily_plan, whatever its priority, the sort method
   and the other tasks. *)
C14_TooLongNeverPlanned ==
    ret.op = "generate" =>
        \A t \in Range(daily_plan) : taskObj[t].duration <= available_time

(* C15: after generate_daily_plan with the priority ordering, no task is
   rejected while a task with a strictly larger priority number (a less
   urgent one) is accepted in the same plan. *)
C15_NoUrgentTaskSkipped ==
    (ret.op = "generate" /\ ret.sort_method = "priority") =>
        \A r \in Range(conflicts), a \in Range(daily_plan) :
            ~(taskObj[a].priority > taskObj[r].priority)

----------------------------------------------------------------------------
(* Vocabulary of the ordering properties *)

\* out holds the elements of in, each as often as in holds it
IsRearrangementOf(out, in) ==
    /\ Len(out) = Len(in)
    /\ \A x \in Range(in) \cup Range(out) : Count(x, out) = Count(x, in)

\* The place of x in s
Pos(x, s) == CHOOSE i \in 1..Len(s) : s[i] = x

\* Two tasks with the same priority, or the same duration, or both the same,
\* stand in out in the order they have in in
TiesKeepOrder(fields, out, in) ==
    \A i, j \in 1..Len(out) :
        (/\ i < j
         /\ "priority" \in fields => taskObj[out[i]].priority = taskObj[out[j]].priority
         /\ "duration" \in fields => taskObj[out[i]].duration = taskObj[out[j]].duration)
        => Pos(out[i], in) < Pos(out[j], in)

\* The priority numbers never fall along s
PriorityNeverFalls(s) ==
    \A i \in 1..(Len(s) - 1) : taskObj[s[i]].priority <= taskObj[s[i + 1]].priority

(* C16: sort_by_priority returns the scheduler's tasks in non-decreasing
   priority number, tasks of equal priority in the order of the scheduler's
   task list; so a daily_plan made with the priority sort method is in
   non-decreasing priority number. *)
C16_PrioritySortStable ==
    /\ (ret.op = "sort" /\ ret.method = "priority") =>
         /\ IsRearrangementOf(ret.value, tasks)
         /\ PriorityNeverFalls(ret.value)
         /\ TiesKeepOrder({"priority"}, ret.value, tasks)
    /\ (ret.op = "generate" /\ ret.sort_method = "priority") =>
         PriorityNeverFalls(daily_plan)

\* three tasks, the first the least urgent, the other two equally urgent:
\* the result moves the first behind the two and keeps the two in order
C16_Witness ==
    /\ ret.op = "sort"
    /\ ret.method = "priority"
    /\ Len(tasks) = 3
    /\ taskObj[tasks[1]].priority = 2
    /\ taskObj[tasks[2]].priority = 1
    /\ taskObj[tasks[3]].priority = 1
    /\ ret.value = <<tasks[2], tasks[3], tasks[1]>>

\* Along s the priority numbers never fall and, while the priority stays the
\* same, the durations never fall
PriorityThenDurationNeverFalls(s) ==
    \A i \in 1..(Len(s) - 1) :
        \/ taskObj[s[i]].priority < taskObj[s[i + 1]].priority
        \/ /\ taskObj[s[i]].priority = taskObj[s[i + 1]].priority
           /\ taskObj[s[i]].duration <= taskObj[s[i + 1]].duration

(* C17: sort_by_priority_then_duration returns the tasks by ascending
   priority number, tasks of equal priority by ascending duration, and tasks
   equal in both in their input order. *)
C17_PriorityThenDurationStable ==
    (ret.op = "sort" /\ ret.method = "priority_duration") =>
        /\ IsRearrangementOf(ret.value, tasks)
        /\ PriorityThenDurationNeverFalls(ret.value)
        /\ TiesKeepOrder({"priority", "duration"}, ret.value, tasks)

\* three tasks of one priority: two of the same duration and behind them a
\* shorter one, which the result puts first
C17_Witness ==
    /\ ret.op = "sort"
    /\ ret.method = "priority_duration"
    /\ Len(tasks) = 3
    /\ \A i \in 1..3 : taskObj[tasks[i]].priority = 2
    /\ taskObj[tasks[1]].duration = 2
    /\ taskObj[tasks[2]].duration = 2
    /\ taskObj[tasks[3]].duration = 1
    /\ ret.value = <<tasks[3], tasks[1], tasks[2]>>

\* The durations never fall, or never rise, along s
DurationNeverFalls(s) ==
    \A i \in 1..(Len(s) - 1) : taskObj[s[i]].duration <= taskObj[s[i + 1]].duration
DurationNeverRises(s) ==
    \A i \in 1..(Len(s) - 1) : taskObj[s[i]].duration >= taskObj[s[i + 1]].duration

(* C18: sort_by_duration returns the tasks in non-decreasing duration and
   sort_by_duration_desc in non-increasing duration; in both, the descending
   one included, tasks of equal duration keep their order in the scheduler's
   task list. *)
C18_DurationSortsStable ==
    /\ (ret.op = "sort" /\ ret.method = "duration") =>
         /\ IsRearrangementOf(ret.value, tasks)
         /\ DurationNeverFalls(ret.value)
         /\ TiesKeepOrder({"duration"}, ret.value, tasks)
    /\ (ret.op = "sort" /\ ret.method = "duration_desc") =>
         /\ IsRearrangementOf(ret.value, tasks)
         /\ DurationNeverRises(ret.value)
         /\ TiesKeepOrder({"duration"}, ret.value, tasks)

\* the descending order of a short task followed by two equally long ones:
\* the long ones come first, in their input order
C18_Witness ==
    /\ ret.op = "sort"
    /\ ret.method = "duration_desc"
    /\ Len(tasks) = 3
    /\ taskObj[tasks[1]].duration = 1
    /\ taskObj[tasks[2]].duration = 2
    /\ taskObj[tasks[3]].duration = 2
    /\ ret.value = <<tasks[2], tasks[3], tasks[1]>>

\* The number of tasks of the first n registered pets
RECURSIVE TasksOfFirst(_)
TasksOfFirst(n) ==
    IF n = 0 THEN 0 ELSE TasksOfFirst(n - 1) + Len(petObj[owner_pets[n]].tasks)

\* out lists the tasks of the registered pets, pet after pet in the order of
\* owner_pets, the tasks of one pet in the order of its collection, each
\* entry of each collection once
IsFlattenedRegistrations(out) ==
    /\ Len(out) = TasksOfFirst(Len(owner_pets))
    /\ \A i \in 1..Len(owner_pets) :
         \A k \in 1..Len(petObj[owner_pets[i]].tasks) :
             out[TasksOfFirst(i - 1) + k] = petObj[owner_pets[i]].tasks[k]

(* C19: Owner.get_all_tasks returns every task of every registered pet
   exactly once, the pets in registration order and the tasks of one pet in
   registration order, and changes no state. *)
C19_GetAllTasksFlattens ==
    [][call_get_all_tasks =>
         /\ IsFlattenedRegistrations(ret'.value)
         /\ \A i \in 1..Len(owner_pets) :
              \A t \in Range(petObj[owner_pets[i]].tasks) : Count(t, ret'.value) = 1
         /\ UNCHANGED <<available_time, owner_pets, petObj, taskObj, tasks,
                        daily_plan, conflicts>>]_vars

\* two registered pets, the first with a task constructed before and one
\* constructed after the task of the second
C19_Witness ==
    /\ ret.op = "get_all_tasks"
    /\ Len(owner_pets) = 2
    /\ petObj[owner_pets[1]].tasks = <<1, 3>>
    /\ petObj[owner_pets[2]].tasks = <<2>>
    /\ ret.value = <<1, 3, 2>>

(* C20: every successful Task construction registers the new task in its
   pet's task collection exactly once: the collection grows by exactly one
   and the new task object is its last element, also when a task with the
   same field values already belongs to that pet. *)
C20_SuccessRegistersOnce ==
    [][\A duration \in QueryDurations, priority \in QueryPriorities,
          p \in 1..Len(petObj), scheduled_time \in QueryStartInputs :
          (TaskStep(duration, priority, p, scheduled_time) /\ ret'.raised = NoError)
            => /\ Len(petObj'[p].tasks) = Len(petObj[p].tasks) + 1
               /\ petObj'[p].tasks[Len(petObj'[p].tasks)] = Len(taskObj) + 1]_vars

(* C21: constructing a Pet adds that Pet object to its owner's collection
   exactly once, whatever pets the collection holds: two distinct Pet
   objects constructed for the owner are both in it even when all their
   attribute values are equal. *)
C21_PetRegisteredByIdentity ==
    [][\A name \in QueryPetNames, species \in SpeciesSet :
          NewPet(name, species) =>
            /\ Count(Len(petObj) + 1, owner_pets') = 1
            /\ \A q \in Range(owner_pets) : Count(q, owner_pets') = 1]_vars

(* C22: in every reachable state every Pet belongs to exactly one owner: it
   is in the pets collection of its owner (the one Owner of the model, which
   is pet.owner of every Pet) exactly once. *)
C22_PetInOwnersCollection ==
    \A q \in 1..Len(petObj) : Count(q, owner_pets) = 1

\* The tasks the records of recs name
NamedIn(recs) == UNION {{recs[k].task1, recs[k].task2} : k \in 1..Len(recs)}

(* C23: conflict detection considers exactly the tasks with a concrete
   scheduled start: a task whose scheduled_time is absent is in no
   time-conflict or pet-conflict record, and a plan task with a concrete
   start, 0 included, is paired with every other such task, so that an
   overlap of the two is reported. *)
C23_DetectionOnScheduledOnly ==
    ret.op = "detect" =>
        /\ \A t \in NamedIn(ret.time_conflicts) \cup NamedIn(ret.pet_conflicts) :
             taskObj[t].scheduled_time # None
        /\ \A a, b \in Range(daily_plan) :
             (/\ a # b
              /\ taskObj[a].scheduled_time # None
              /\ taskObj[b].scheduled_time # None
              /\ HalfOpenOverlap(a, b))
             => ReportedIn(ret.time_conflicts, a, b)

\* a plan with a task that has no start and two tasks that start at 0, which
\* are reported
C23_Witness ==
    /\ ret.op = "detect"
    /\ \E t \in Range(daily_plan) : taskObj[t].scheduled_time = None
    /\ \E a, b \in Range(daily_plan) :
         /\ a # b
         /\ taskObj[a].scheduled_time = Some(0)
         /\ taskObj[b].scheduled_time = Some(0)
         /\ ReportedIn(ret.time_conflicts, a, b)

\* No record of recs has one task on both sides, and no two records name the
\* same unordered pair
EachPairOnce(recs) ==
    /\ \A k \in 1..Len(recs) : recs[k].task1 # recs[k].task2
    /\ \A k, l \in 1..Len(recs) :
         k # l => {recs[k].task1, recs[k].task2} # {recs[l].task1, recs[l].task2}

(* C24: each conflict scan pairs every unordered pair of scheduled tasks
   once and no task with itself: in the list of detect_time_conflicts, and
   in that of detect_pet_conflicts, no record has the same task on both
   sides and no unordered pair is in more than one record. *)
C24_EachPairOnce ==
    ret.op = "detect" =>
        /\ EachPairOnce(ret.time_conflicts)
        /\ EachPairOnce(ret.pet_conflicts)

\* three scheduled tasks of one pet, every two of them overlapping: three
\* records in each list
C24_Witness ==
    /\ ret.op = "detect"
    /\ Cardinality(ScheduledInPlan) = 3
    /\ Len(ret.time_conflicts) = 3
    /\ Len(ret.pet_conflicts) = 3

(* C25: the two categories are computed independently and not
   deduplicated: every pair detect_pet_conflicts reports is also reported
   by detect_time_conflicts, and an overlapping pair of scheduled plan tasks
   of one pet is in both lists of detect_all_conflicts. *)
C25_BothCategories ==
    ret.op = "detect" =>
        /\ \A k \in 1..Len(ret.pet_conflicts) :
             ReportedIn(ret.time_conflicts, ret.pet_conflicts[k].task1,
                        ret.pet_conflicts[k].task2)
        /\ \A a, b \in ScheduledInPlan :
             (a # b /\ taskObj[a].pet = taskObj[b].pet /\ HalfOpenOverlap(a, b))
             => /\ ReportedIn(ret.time_conflicts, a, b)
                /\ ReportedIn(ret.pet_conflicts, a, b)

\* two overlapping tasks of one pet, in both lists, and a task of a pet of
\* another name that overlaps them, in the time list only
C25_Witness ==
    /\ ret.op = "detect"
    /\ Len(ret.pet_conflicts) = 1
    /\ Len(ret.time_conflicts) = 3
    /\ taskObj[ret.pet_conflicts[1].task1].pet = taskObj[ret.pet_conflicts[1].task2].pet

(* C26: assign_time_slots can be called again and the last call wins: after
   a call with offset s every plan task's scheduled_time is s plus the
   durations of the plan tasks before it, whatever stamps or caller-supplied
   start times the tasks had; a second call with the same offset changes
   nothing. *)
C26_LastAssignWins ==
    [][\A s \in 0..MaxStart : assign_time_slots(s) =>
         /\ \A i \in 1..Len(daily_plan) :
              taskObj'[daily_plan[i]].scheduled_time =
                Some(s + SumDur(taskObj, SubSeq(daily_plan, 1, i - 1)))
         /\ Stamp(taskObj', daily_plan, s) = taskObj']_vars

\* a plan of three tasks stamped from offset 1
C26_Witness ==
    /\ ret.op = "assign"
    /\ Len(daily_plan) = 3
    /\ \A i \in 1..3 :
         taskObj[daily_plan[i]].scheduled_time =
           Some(1 + SumDur(taskObj, SubSeq(daily_plan, 1, i - 1)))

(* C27: when no task was constructed with a caller-supplied scheduled_time,
   then after any Task, generate_daily_plan and assign_time_slots calls
   detect_time_conflicts and detect_pet_conflicts return empty lists. *)
C27_NoConflictWithoutCallerStart ==
    ret.op = "detect" => (ret.time_conflicts = <<>> /\ ret.pet_conflicts = <<>>)

(* C28: for an owner with available_time 180 and one pet "Max" with the
   tasks (medication, 5, priority 1), (feeding, 15, 1), (walk, 30, 2),
   (grooming, 25, 4) constructed in this order, generate_daily_plan with the
   priority ordering accepts all four (total 75) and rejects none, and
   assign_time_slots(480) then gives the starts 480, 485, 500, 530 in plan
   order, with no time conflict and no pet conflict. *)
C28_Scenario ==
    [][(/\ Len(tasks) = 4
        /\ ret.op = "generate"
        /\ ret.sort_method = "priority"
        /\ assign_time_slots(480))
       => /\ daily_plan = <<1, 2, 3, 4>>
          /\ conflicts = <<>>
          /\ calculate_total_time = 75
          /\ taskObj'[1].scheduled_time = Some(480)
          /\ taskObj'[2].scheduled_time = Some(485)
          /\ taskObj'[3].scheduled_time = Some(500)
          /\ taskObj'[4].scheduled_time = Some(530)
          /\ (detect_time_conflicts = <<>> /\ detect_pet_conflicts = <<>>)']_vars

\* the four tasks planned in priority order and stamped from 480
C28_Witness ==
    /\ ret.op = "assign"
    /\ available_time = 180
    /\ Len(tasks) = 4
    /\ daily_plan = <<1, 2, 3, 4>>
    /\ conflicts = <<>>
    /\ taskObj[1].scheduled_time = Some(480)
    /\ taskObj[4].scheduled_time = Some(530)
    /\ taskObj[4].duration = 25

(* C29: capacity shortfalls and conflict findings are never errors:
   generate_daily_plan returns the plan and every task of the scheduler that
   is not in it is in conflicts, assign_time_slots stamps every plan task,
   and detect_all_conflicts raises nothing and returns its two lists; this
   also with overlapping caller-supplied start times on the tasks. *)
C29_ShortfallsAreNotErrors ==
    /\ ret.op = "generate" =>
         /\ ret.value = daily_plan
         /\ \A t \in Range(tasks) :
              t \notin Range(daily_plan) => t \in Range(conflicts)
    /\ ret.op = "assign" =>
         \A t \in Range(daily_plan) : taskObj[t].scheduled_time # None
    /\ ret.op = "detect" =>
         /\ ret.raised = NoError
         /\ DOMAIN ret = {"op", "raised", "time_conflicts", "pet_conflicts"}

\* a plan made from two tasks whose caller-supplied intervals overlap, one
\* of them rejected for lack of time
C29_Witness ==
    /\ ret.op = "generate"
    /\ \E a \in Range(daily_plan), b \in Range(conflicts) :
         /\ taskObj[a].scheduled_time = Some(0)
         /\ taskObj[b].scheduled_time = Some(0)
         /\ taskObj[a].duration > 0
         /\ taskObj[b].duration > available_time

\* What a caller can observe of the conflicts of the scheduler: the result of
\* check_conflicts and the two lists of detect_all_conflicts
ConflictResult ==
    [check_conflicts |-> check_conflicts,
     time_conflicts |-> detect_time_conflicts,
     pet_conflicts |-> detect_pet_conflicts]

\* The same of a Scheduler just constructed
FreshConflictResult ==
    [check_conflicts |-> <<>>, time_conflicts |-> <<>>, pet_conflicts |-> <<>>]

(* C30: zero conflicts can be told from "not yet checked": after a plan was
   generated and detect_all_conflicts found no conflict in it, the conflict
   result observable on the scheduler differs from that of a scheduler on
   which nothing was generated or checked. *)
C30_CheckedDistinguishable ==
    (/\ ret.op = "detect"
     /\ ret.raised = NoError
     /\ daily_plan # <<>>
     /\ ret.time_conflicts = <<>>
     /\ ret.pet_conflicts = <<>>)
    => ConflictResult # FreshConflictResult

----------------------------------------------------------------------------
\* The band the plan text is to show for a priority
BandOf(priority) ==
    IF priority <= 2 THEN "HIGH" ELSE IF priority = 3 THEN "MEDIUM" ELSE "LOW"

\* The last n lines of the text are the lines of the rejected tasks, in the
\* order of the rejected list, under the heading of the section
EndsWithRejectedSection(text) ==
    LET n == Len(conflicts)
    IN /\ Len(text) > n
       /\ text[Len(text) - n].kind = "heading"
       /\ \A k \in 1..n :
             LET line == text[Len(text) - n + k]
                 t == taskObj[conflicts[k]]
             IN /\ line.kind = "conflict"
                /\ line.name = t.name
                /\ line.duration = t.duration
                /\ line.priority = t.priority
                /\ line.pet = petObj[t.pet].name

\* C31: whenever the rejected list is not empty, whether or not a task was
\* accepted, the text of get_plan_summary ends with the rejected-tasks
\* section, which names every rejected task; and the line of each accepted
\* task carries HIGH for a priority <= 2, MEDIUM for 3 and LOW for >= 4.
C31_SummaryShowsRejectedAndBands ==
    LET text == get_plan_summary
    IN /\ conflicts # <<>> => EndsWithRejectedSection(text)
       /\ \A i \in 1..Len(daily_plan) :
             \E j \in 1..Len(text) :
                 /\ text[j].kind = "task"
                 /\ text[j].index = i
                 /\ text[j].name = taskObj[daily_plan[i]].name
                 /\ text[j].label = BandOf(taskObj[daily_plan[i]].priority)

\* The same with the rejected section required only when a task was accepted
SummaryCompleteWhenPlanNonEmpty ==
    LET text == get_plan_summary
    IN /\ (conflicts # <<>> /\ daily_plan # <<>>) => EndsWithRejectedSection(text)
       /\ \A i \in 1..Len(daily_plan) :
             \E j \in 1..Len(text) :
                 /\ text[j].kind = "task"
                 /\ text[j].index = i
                 /\ text[j].label = BandOf(taskObj[daily_plan[i]].priority)

----------------------------------------------------------------------------
\* Every collection that can hold a task, and the owner's pets
Collections == <<owner_pets, [p \in 1..Len(petObj) |-> petObj[p].tasks], tasks,
                 daily_plan, conflicts>>

\* The heap of tasks differs from the one before at most in the completion
\* flag of t, which is `completed`
OnlyFlagSet(t, completed) ==
    /\ Len(taskObj') = Len(taskObj)
    /\ \A u \in 1..Len(taskObj) :
          /\ taskObj'[u].name = taskObj[u].name
          /\ taskObj'[u].task_type = taskObj[u].task_type
          /\ taskObj'[u].duration = taskObj[u].duration
          /\ taskObj'[u].priority = taskObj[u].priority
          /\ taskObj'[u].pet = taskObj[u].pet
          /\ taskObj'[u].recurrence = taskObj[u].recurrence
          /\ taskObj'[u].scheduled_time = taskObj[u].scheduled_time
          /\ taskObj'[u].completed = IF u = t THEN completed ELSE taskObj[u].completed

\* C32: mark_complete sets the completion flag of the task to true and
\* mark_incomplete sets it to false; a call on a task whose flag already has
\* that value changes nothing; no other field of the task, no other task and
\* no collection changes, nor do the pets and the capacity.
C32_MarksSetOnlyTheFlag ==
    [][\A t \in 1..Len(taskObj) :
          /\ mark_complete(t) =>
                /\ OnlyFlagSet(t, TRUE)
                /\ taskObj[t].completed => taskObj' = taskObj
                /\ Collections' = Collections
                /\ available_time' = available_time
          /\ mark_incomplete(t) =>
                /\ OnlyFlagSet(t, FALSE)
                /\ ~taskObj[t].completed => taskObj' = taskObj
                /\ Collections' = Collections
                /\ available_time' = available_time]_vars

\* mark_incomplete has just cleared the flag of a planned task that has a
\* start time, and another task of the scheduler's list is marked complete
C32_Witness ==
    /\ ret.op = "mark_incomplete"
    /\ ~taskObj[ret.task].completed
    /\ taskObj[ret.task].scheduled_time # None
    /\ ret.task \in Range(daily_plan)
    /\ \E u \in Range(tasks) : taskObj[u].completed

----------------------------------------------------------------------------
\* C33: filter_by_completion(True) and filter_by_completion(False) have no
\* task in common, each lists tasks of the scheduler's list in the order of
\* that list, every task of the list is in exactly one of them exactly once,
\* a task is in the completed part exactly when its flag is set, and a call
\* returns the part asked for.
C33_FilterPartitions ==
    LET done == filter_by_completion(TRUE)
        open == filter_by_completion(FALSE)
    IN /\ Range(done) \cap Range(open) = {}
       /\ IsOrderedPartOf(done, tasks)
       /\ IsOrderedPartOf(open, tasks)
       /\ Len(done) + Len(open) = Len(tasks)
       /\ \A t \in Range(tasks) : Count(t, done) + Count(t, open) = 1
       /\ \A t \in Range(tasks) : t \in Range(done) <=> taskObj[t].completed
       /\ ret.op = "filter_by_completion" =>
             ret.value = IF ret.completed THEN done ELSE open

\* A call has returned the open tasks of a list of three, of which the first
\* and the last are open and the second is complete
C33_Witness ==
    /\ ret.op = "filter_by_completion"
    /\ ~ret.completed
    /\ Len(tasks) = 3
    /\ ret.value = <<tasks[1], tasks[3]>>
    /\ filter_by_completion(TRUE) = <<tasks[2]>>

----------------------------------------------------------------------------
\* The lists of n different tasks of the heap
TaskLists(n) ==
    {s \in [1..n -> 1..Len(taskObj)] : \A i, j \in 1..n : i # j => s[i] # s[j]}

\* a and b have the same priority and duration at every position
SameKeysByPosition(a, b) ==
    /\ Len(a) = Len(b)
    /\ \A i \in 1..Len(a) :
          /\ taskObj[a[i]].priority = taskObj[b[i]].priority
          /\ taskObj[a[i]].duration = taskObj[b[i]].duration

\* a and b differ at position i in a descriptive field
DescriptiveDiffer(a, b, i) ==
    \/ taskObj[a[i]].recurrence # taskObj[b[i]].recurrence
    \/ taskObj[a[i]].task_type # taskObj[b[i]].task_type
    \/ taskObj[a[i]].completed # taskObj[b[i]].completed
    \/ taskObj[a[i]].scheduled_time # taskObj[b[i]].scheduled_time

\* The positions of the list whose task is in part
PositionsIn(list, part) == {i \in 1..Len(list) : list[i] \in Range(part)}

\* The run of generate_daily_plan over the given task list
RunOver(sort_method, list) ==
    Allocate(SortedTasks(sort_method, list), get_available_time, 0, <<>>, <<>>)

\* C34: a run of generate_daily_plan accepts and rejects the same positions
\* of its task list as a run with the same sort method and available time
\* over any task list that has the same priority and duration at every
\* position, whatever the recurrence, category, completion flag and start
\* time of the tasks are.
C34_DescriptiveFieldsHaveNoEffect ==
    [][\A sort_method \in SortMethods :
          generate_daily_plan(sort_method) =>
             \A other \in TaskLists(Len(tasks')) :
                SameKeysByPosition(tasks', other) =>
                   /\ PositionsIn(other, RunOver(sort_method, other).daily_plan)
                        = PositionsIn(tasks', daily_plan')
                   /\ PositionsIn(other, RunOver(sort_method, other).conflicts)
                        = PositionsIn(tasks', conflicts')]_vars

\* A plan over two tasks, one accepted and one rejected, where another list
\* has the same keys and differs from it in a descriptive field of a task
C34_Witness ==
    /\ ret.op = "generate"
    /\ Len(tasks) = 2
    /\ Len(daily_plan) = 1
    /\ Len(conflicts) = 1
    /\ \E other \in TaskLists(2) :
          /\ SameKeysByPosition(tasks, other)
          /\ \E i \in 1..2 : other[i] # tasks[i] /\ DescriptiveDiffer(tasks, other, i)
          /\ \E i \in 1..2 : taskObj[tasks[i]].completed

----------------------------------------------------------------------------
\* C35: every task in daily_plan or conflicts belongs to a pet of the
\* scheduler's owner, whatever add_task, remove_task and
\* load_tasks_from_owner calls came before the plan.
C35_PlannedTasksAreOwners ==
    \A t \in Range(daily_plan) \cup Range(conflicts) :
        taskObj[t].pet \in Range(owner_pets)

\* C36: a generate_daily_plan that follows a remove_task which took the
\* task out of the scheduler's list, with no add_task or load_tasks_from_owner
\* in between, places that task in neither daily_plan nor conflicts; this
\* includes the case where the task was the only one of the list.
C36_RemovedStaysOut ==
    [][\A sort_method \in SortMethods :
          (/\ ret.op = "remove_task"
           /\ ret.removed
           /\ ret.task \notin Range(tasks)
           /\ generate_daily_plan(sort_method)) =>
             ret.task \notin Range(daily_plan') \cup Range(conflicts')]_vars

\* The same when the scheduler still holds a task after the removal
RemovedStaysOutOfNonEmptyList ==
    [][\A sort_method \in SortMethods :
          (/\ ret.op = "remove_task"
           /\ ret.removed
           /\ tasks # <<>>
           /\ generate_daily_plan(sort_method)) =>
             ret.task \notin Range(daily_plan') \cup Range(conflicts')]_vars

----------------------------------------------------------------------------
\* C37: generate_daily_plan assigns only daily_plan and conflicts, and the
\* scheduler's task list when that list was empty; every field of every task,
\* start time and completion flag among them, every pet's task list, the
\* owner's pets and the available time are as before.
C37_GenerateFrame ==
    [][\A sort_method \in SortMethods :
          generate_daily_plan(sort_method) =>
             /\ tasks # <<>> => tasks' = tasks
             /\ taskObj' = taskObj
             /\ petObj' = petObj
             /\ owner_pets' = owner_pets
             /\ available_time' = available_time]_vars

\* A plan generated after assign_time_slots and mark_complete: every task of
\* the plan and a rejected task still have the start times written before,
\* and a planned and a rejected task are still marked complete
C37_Witness ==
    /\ ret.op = "generate"
    /\ Len(daily_plan) = 2
    /\ \A t \in Range(daily_plan) : taskObj[t].scheduled_time # None
    /\ \E t \in Range(daily_plan) : taskObj[t].completed
    /\ \E t \in Range(conflicts) :
          taskObj[t].scheduled_time # None /\ taskObj[t].completed

----------------------------------------------------------------------------
\* C38: assign_time_slots changes nothing but the start times of the tasks
\* of daily_plan: the start time of every rejected task and of every other
\* task outside the plan, every other field of every task, daily_plan,
\* conflicts, the scheduler's task list, the pets and the available time are
\* as before.
C38_AssignFrame ==
    [][AssignStep =>
          /\ daily_plan' = daily_plan
          /\ conflicts' = conflicts
          /\ tasks' = tasks
          /\ petObj' = petObj
          /\ owner_pets' = owner_pets
          /\ available_time' = available_time
          /\ Len(taskObj') = Len(taskObj)
          /\ \A u \in 1..Len(taskObj) :
                /\ taskObj'[u].name = taskObj[u].name
                /\ taskObj'[u].task_type = taskObj[u].task_type
                /\ taskObj'[u].duration = taskObj[u].duration
                /\ taskObj'[u].priority = taskObj[u].priority
                /\ taskObj'[u].pet = taskObj[u].pet
                /\ taskObj'[u].recurrence = taskObj[u].recurrence
                /\ taskObj'[u].completed = taskObj[u].completed
                /\ u \notin Range(daily_plan) =>
                      taskObj'[u].scheduled_time = taskObj[u].scheduled_time]_vars

\* assign_time_slots has stamped the one task of the plan; a rejected task
\* keeps the start time of an earlier plan, a task constructed since the plan
\* has none, and a task is marked complete
C38_Witness ==
    /\ ret.op = "assign"
    /\ Len(daily_plan) = 1
    /\ taskObj[daily_plan[1]].scheduled_time # None
    /\ \E t \in Range(conflicts) :
          /\ taskObj[t].scheduled_time # None
          /\ taskObj[t].scheduled_time # taskObj[daily_plan[1]].scheduled_time
    /\ \E t \in 1..Len(taskObj) :
          /\ t \notin Range(daily_plan) \cup Range(conflicts)
          /\ taskObj[t].scheduled_time = None
    /\ \E t \in 1..Len(taskObj) : taskObj[t].completed

====
